---- MODULE Spec2Model ----
(***************************************************************************)
(* polysquare-setuptools-lint: the lint command's run() pipeline.          *)
(*                                                                         *)
(* Source: src/polysquare_setuptools_lint/__init__.py.  The model follows  *)
(* PolysquareLintCommand.run: file discovery, dispatch of the checks by    *)
(* _map_over_linters, the merge into keyed_messages, the suppression       *)
(* filter (_suppressed), the report and the exit request.                  *)
(*                                                                         *)
(* Text (source lines, paths, glob patterns, option strings) is modelled   *)
(* as TLA+ strings, i.e. sequences of characters, and the Python string    *)
(* methods the code calls are operators computed character by character.   *)
(***************************************************************************)
EXTENDS Integers, Sequences, FiniteSets, TLC

(***************************************************************************)
(* Python built-ins used by the code.                                      *)
(***************************************************************************)

\* A Python value of an option or an argument, with its type.
PyStr(s) == [type |-> "str", str |-> s, list |-> <<>>, int |-> 0]
PyList(l) == [type |-> "list", str |-> "", list |-> l, int |-> 0]
PyInt(n) == [type |-> "int", str |-> "", list |-> <<>>, int |-> n]
PyOther(type) == [type |-> type, str |-> "", list |-> <<>>, int |-> 0]

\* isinstance(value, type)
isinstance(value, type) == value.type = type

\* x in list
InList(x, list) == \E i \in 1..Len(list) : list[i] = x

\* The characters str.strip() removes.
Whitespace == {" ", "\t", "\n", "\r", "\f"}

RECURSIVE LStrip(_)
LStrip(s) ==
    IF Len(s) > 0 /\ SubSeq(s, 1, 1) \in Whitespace
    THEN LStrip(SubSeq(s, 2, Len(s)))
    ELSE s

RECURSIVE RStrip(_)
RStrip(s) ==
    IF Len(s) > 0 /\ SubSeq(s, Len(s), Len(s)) \in Whitespace
    THEN RStrip(SubSeq(s, 1, Len(s) - 1))
    ELSE s

\* str.strip()
Strip(s) == RStrip(LStrip(s))

\* Index of the first occurrence of the character sep in s, 0 when absent.
RECURSIVE FindFrom(_, _, _)
FindFrom(s, sep, i) ==
    IF i > Len(s) THEN 0
    ELSE IF SubSeq(s, i, i) = sep THEN i
    ELSE FindFrom(s, sep, i + 1)

\* str.split(sep) for a one-character separator: the list of segments.
RECURSIVE Split(_, _)
Split(s, sep) ==
    LET i == FindFrom(s, sep, 1)
    IN  IF i = 0 THEN <<s>>
        ELSE <<SubSeq(s, 1, i - 1)>> \o Split(SubSeq(s, i + 1, Len(s)), sep)

\* str.startswith(prefix)
StartsWith(s, prefix) ==
    Len(s) >= Len(prefix) /\ SubSeq(s, 1, Len(prefix)) = prefix

\* s[n:-1]: drop the first n characters and the last one.
SliceDropLast(s, n) == SubSeq(s, n + 1, Len(s) - 1)

\* s[1:]
SliceFrom1(s) == SubSeq(s, 2, Len(s))

\* list[i] for a Python index i (negative indices count from the end);
\* "IndexError" when i is out of range.
IndexError == "IndexError"
PyIndexInRange(list, i) == i < Len(list) /\ i >= 0 - Len(list)
PyIndex(list, i) == IF i >= 0 THEN list[i + 1] ELSE list[Len(list) + i + 1]

Max(a, b) == IF a >= b THEN a ELSE b

(***************************************************************************)
(* _parse_suppressions and the inline part of _suppressed.                 *)
(***************************************************************************)

SuppressPrefix == "suppress("

\* Mutant: the closing character is not dropped.
ParseKeepingLast(suppressions) ==
    Split(SubSeq(suppressions, Len(SuppressPrefix) + 1, Len(suppressions)), ",")

\* suppressions[len("suppress("):-1].split(",")
_parse_suppressions(suppressions) ==
    Split(SliceDropLast(suppressions, Len(SuppressPrefix)), ",")

\* Python values _suppressed can return: True, False, or None when the
\* function runs off its end.
PyTrue == "True"
PyFalse == "False"
PyNone == "None"

\* `not value` for the values above.
Falsy(value) == value \in {PyFalse, PyNone}

\* Mutant: `if` for `while`, one decrement at most.
ClampLineOnce(line, n) == IF line > n THEN line - 1 ELSE line

\* while line > len(lines): line = line - 1
RECURSIVE ClampLine(_, _)
ClampLine(line, n) == IF line > n THEN ClampLine(line - 1, n) ELSE line

\* The test applied to a candidate directive text: None when it does not
\* start with "suppress(", else whether code is in the parsed list.
DirectiveTest(suppressions_function, code) ==
    IF StartsWith(suppressions_function, SuppressPrefix)
    THEN IF InList(code, _parse_suppressions(suppressions_function))
         THEN PyTrue ELSE PyFalse
    ELSE PyNone

\* Mutant: the line itself is taken for the line above.
AboveIndexSameLine(line) == line - 1

\* max(0, line - 2): the index of above_line
AboveIndex(line) == Max(0, line - 2)

\* Mutant: a file of zero lines is indexed like any other.
InlineSuppressedUnguarded(lines, line, code) ==
    LET clamped == ClampLine(line, Len(lines))
    IN  IF ~PyIndexInRange(lines, clamped - 1) THEN IndexError
        ELSE
          LET relevant_line == PyIndex(lines, clamped - 1)
              parts == Split(relevant_line, "#")
          IN  IF Len(parts) >= 2
              THEN DirectiveTest(Strip(parts[2]), code)
              ELSE
                LET above_line == PyIndex(lines, AboveIndex(clamped))
                IN  DirectiveTest(Strip(SliceFrom1(Strip(above_line))), code)

\* Lines 502-524 of _suppressed, after the global test: lines is the
\* value of self._file_lines(filename).
InlineSuppressed(lines, line, code) ==
    IF Len(lines) = 0 THEN PyFalse
    ELSE
      LET clamped == ClampLine(line, Len(lines))
      IN  IF ~PyIndexInRange(lines, clamped - 1) THEN IndexError
          ELSE
            LET relevant_line == PyIndex(lines, clamped - 1)
                parts == Split(relevant_line, "#")
            IN  IF Len(parts) >= 2
                THEN DirectiveTest(Strip(parts[2]), code)
                ELSE
                  LET above_line == PyIndex(lines, AboveIndex(clamped))
                  IN  DirectiveTest(Strip(SliceFrom1(Strip(above_line))), code)

\* Mutant: the global list is not consulted.
GloballySuppressedNever(code, codes) == FALSE

\* `if code in self.suppress_codes`
GloballySuppressed(code, codes) == InList(code, codes)

\* _suppressed(filename, line, code) given the file's lines.
_suppressed(codes, lines, line, code) ==
    IF GloballySuppressed(code, codes) THEN PyTrue
    ELSE InlineSuppressed(lines, line, code)

\* The line number (from 1) of the element list[i] reads: a negative i
\* counts from the end.
PyPosition(list, i) == IF i >= 0 THEN i + 1 ELSE Len(list) + i + 1

\* The line `relevant_line = lines[line - 1]` reads, after the while loop.
FlaggedPosition(lines, line) ==
    PyPosition(lines, ClampLine(line, Len(lines)) - 1)

\* The line `above_line = lines[max(0, line - 2)]` reads.
AbovePosition(lines, line) ==
    PyPosition(lines, AboveIndex(ClampLine(line, Len(lines))))

(***************************************************************************)
(* _Key, Message and the dict operations run() and the adapters use.       *)
(***************************************************************************)

\* _Key(file, line, code)
_Key(file, line, code) == [file |-> file, line |-> line, code |-> code]

\* prospector's Message(source, code, Location(path, ..., line, ...), text).
\* `by` is a history field: the check (dispatch linter or prospector
\* sub-tool) whose tool reported the finding.
Message(source, code, path, line, by) ==
    [source |-> source, code |-> code, path |-> path, line |-> line, by |-> by]

\* A dict is the sequence of its items in insertion order.
DictKeys(d) == {d[i].key : i \in 1..Len(d)}
DictIndex(d, key) == CHOOSE i \in 1..Len(d) : d[i].key = key
DictGet(d, key) == d[DictIndex(d, key)].message

\* Mutant: setdefault, the first value of a key is kept.
DictSetDefault(d, key, message) ==
    IF key \in DictKeys(d) THEN d
    ELSE Append(d, [key |-> key, message |-> message])

\* d[key] = message: an existing key keeps its place and gets the new
\* value, a new key is appended.
DictSet(d, key, message) ==
    IF key \in DictKeys(d)
    THEN [d EXCEPT ![DictIndex(d, key)].message = message]
    ELSE Append(d, [key |-> key, message |-> message])

\* d.update(other)
RECURSIVE DictUpdate(_, _)
DictUpdate(d, other) ==
    IF Len(other) = 0 THEN d
    ELSE DictUpdate(DictSet(d, other[1].key, other[1].message), Tail(other))

(***************************************************************************)
(* Paths, globs and file discovery.                                        *)
(***************************************************************************)

\* os.getcwd()
Cwd == "/w"

\* The characters of the model's texts in code point order.
CodePoints == "\t\n #()*,-./0123456789?ABCDEFGHIJKLMNOPQRSTUVWXYZ]_abcdefghijklmnopqrstuvwxyz"
Ord(c) == FindFrom(CodePoints, c, 1)

\* a < b for Python strings
RECURSIVE StrLess(_, _)
StrLess(a, b) ==
    IF Len(b) = 0 THEN FALSE
    ELSE IF Len(a) = 0 THEN TRUE
    ELSE IF SubSeq(a, 1, 1) = SubSeq(b, 1, 1)
         THEN StrLess(SubSeq(a, 2, Len(a)), SubSeq(b, 2, Len(b)))
         ELSE Ord(SubSeq(a, 1, 1)) < Ord(SubSeq(b, 1, 1))

\* _Key.__lt__(self, other)
_Key__lt__(self, other) ==
    IF self.file = other.file
    THEN IF self.line = other.line
         THEN StrLess(self.code, other.code)
         ELSE self.line < other.line
    ELSE StrLess(self.file, other.file)

\* sorted(set of strings)
RECURSIVE SortedStrings(_)
SortedStrings(S) ==
    IF S = {} THEN <<>>
    ELSE LET least == CHOOSE a \in S : \A b \in S \ {a} : StrLess(a, b)
         IN  <<least>> \o SortedStrings(S \ {least})

\* fnmatch.fnmatch(name, pattern) for patterns of literals, "*" and "?".
RECURSIVE fnmatch(_, _)
fnmatch(name, pattern) ==
    IF Len(pattern) = 0 THEN Len(name) = 0
    ELSE
      LET p == SubSeq(pattern, 1, 1)
          rest == SubSeq(pattern, 2, Len(pattern))
      IN  IF p = "*"
          THEN \/ fnmatch(name, rest)
               \/ Len(name) > 0 /\ fnmatch(SubSeq(name, 2, Len(name)), pattern)
          ELSE /\ Len(name) > 0
               /\ p = "?" \/ p = SubSeq(name, 1, 1)
               /\ fnmatch(SubSeq(name, 2, Len(name)), rest)

\* _is_excluded(filename, exclusions)
_is_excluded(filename, exclusions) ==
    \E i \in 1..Len(exclusions) : fnmatch(filename, exclusions[i])

\* _all_files_matching_ext(start, ext): the regular files below start
\* whose path matches "*." + ext.
_all_files_matching_ext(tree, start, ext) ==
    {f \in tree : StartsWith(f, start \o "/") /\ fnmatch(f, "*." \o ext)}

\* _file_is_test: re.match(r"^.*test[^/]*.py$", filename)
_file_is_test(filename) ==
    \E i \in 1..(Len(filename) - 3) :
        /\ SubSeq(filename, i, i + 3) = "test"
        /\ LET r == SubSeq(filename, i + 4, Len(filename))
           IN  /\ Len(r) >= 3
               /\ SubSeq(r, Len(r) - 1, Len(r)) = "py"
               /\ SubSeq(r, Len(r) - 2, Len(r) - 2) # "\n"
               /\ FindFrom(SubSeq(r, 1, Len(r) - 3), "/", 1) = 0

\* os.path.join(os.getcwd(), name) for a relative name: the file a path
\* names when it is opened.
AbsPath(path) == IF StartsWith(path, "/") THEN path ELSE Cwd \o "/" \o path

\* Message.to_relative_path(cwd)
RelPath(path) ==
    IF StartsWith(path, Cwd \o "/")
    THEN SubSeq(path, Len(Cwd) + 2, Len(path))
    ELSE path

(***************************************************************************)
(* The project under lint and the external tools.                          *)
(***************************************************************************)

\* The regular files of the project: path -> the file's lines as
\* readlines() returns them.
ProjectDisk ==
    ("/w/setup.py" :> <<"import setuptools\n",
                        "setup()  # suppress(LongDescription)\n">>) @@
    ("/w/test/test_m.py" :> <<"import sys  # suppress(E501)\n",
                              "# suppress(F401)\n",
                              "import os\n">>) @@
    ("/w/README.md" :> <<"# Title\n", "text\n">>)

\* self.distribution.packages or list(), self.distribution.py_modules or list()
ProjectPackages == <<>>
ProjectModules == <<>>

\* What the code asks of the machine it runs on:
\* platform.python_implementation(), sys.version_info.major,
\* platform.system(), multiprocessing.cpu_count(),
\* os.getenv("DISABLE_MULTIPROCESSING") and whether Popen finds an mdl
\* executable.
Machine(implementation, system, cpu_count, mdl) ==
    [implementation |-> implementation, major |-> 3, system |-> system,
     cpu_count |-> cpu_count, DISABLE_MULTIPROCESSING |-> FALSE, mdl |-> mdl]

Platforms ==
    {Machine("CPython", "Linux", 4, TRUE),
     Machine("PyPy", "Linux", 4, TRUE),
     Machine("CPython", "Windows", 2, FALSE)}

\* What prospector's tools can find in a file: every message of the run is
\* one of these, reported by the tool named in `by`.
ProspectorFindings(f) ==
    << Message("pep8", "E501", f, 1, "pep8"),
       Message("pyflakes", "F401", f, 3, "pyflakes"),
       Message("frosted", "F401", f, 3, "frosted"),
       Message("pylint", "invalid-name", f, 2, "pylint"),
       Message("dodgy", "password", f, 2, "dodgy") >>

RECURSIVE FindingsOf(_)
FindingsOf(per_file) ==
    IF Len(per_file) = 0 THEN <<>>
    ELSE per_file[1] \o FindingsOf(Tail(per_file))

\* prospector.get_messages() after Prospector(...).execute() with the tools
\* of "-t": nothing, or the findings of the tools that ran.
ProspectorOutputs(filenames, tools) ==
    {<<>>,
     SelectSeq(FindingsOf([i \in DOMAIN filenames |-> ProspectorFindings(filenames[i])]),
               LAMBDA m : InList(m.by, tools))}

\* flake8 reports Message(code, code, Location(file, ..., line, ...), text).
Flake8Findings(f) ==
    << Message("E501", "E501", f, 1, "flake8"),
       Message("F401", "F401", f, 3, "flake8") >>
Flake8Outputs(filename) == {<<>>, Flake8Findings(filename)}

\* pyroma's failed tests, by class name.
PyromaOutputs == {<<>>, <<"LongDescription">>}

\* mdl's output lines as (filename, lineno, code) groups.
MdlFindings(f) == << Message("markdownlint", "MD013", f, 1, "mdl") >>
MdlOutputs(md_files) == {<<>>, FindingsOf([i \in DOMAIN md_files |-> MdlFindings(md_files[i])])}

\* polysquare-generic-file-linter's errors, given to _custom_reporter.
StyleFindings(f) ==
    << Message("polysquare-generic-file-linter", "E501", f, 1,
               "polysquare-generic-file-linter") >>
StyleOutputs(py_files) == {<<>>, FindingsOf([i \in DOMAIN py_files |-> StyleFindings(py_files[i])])}

\* spellcheck-linter's errors: line = error.line_offset + 1.
SpellFindings(f) ==
    << Message("spellcheck-linter", "file/spelling_error", f, 2,
               "spellcheck-linter") >>
SpellOutputs(md_files) == {<<>>, FindingsOf([i \in DOMAIN md_files |-> SpellFindings(md_files[i])])}

\* The option values of a run, after finalize_options.
SuppressCodesChoices == {<<>>, <<"E501">>, <<"LongDescription", "F401">>}
ExclusionsChoices == {<<>>, <<"*.py">>, <<"*test*">>}
DisableLintersChoices ==
    {<<>>, <<"flake8">>, <<"dodgy">>, <<"pylint">>, <<"pyroma">>,
     <<"mdl", "spellcheck-linter">>, <<"polysquare-generic-file-linter">>}

(***************************************************************************)
(* Adapters.                                                               *)
(***************************************************************************)

\* return_dict[_Key(path, line, code)] = message for each message in turn,
\* skipping the codes of ignore_codes.
RECURSIVE BuildDict(_, _, _)
BuildDict(return_dict, messages, ignore_codes) ==
    IF Len(messages) = 0 THEN return_dict
    ELSE LET m == messages[1]
         IN  BuildDict(IF InList(m.code, ignore_codes)
                       THEN return_dict
                       ELSE DictSet(return_dict,
                                    _Key(m.path, m.line, m.code), m),
                       Tail(messages), ignore_codes)

\* Mutant: the disabled linters are not taken out.
EnabledToolsAll(tools, disabled_linters) == tools

\* list(set(tools) - set(disabled_linters)), kept in the order of tools
EnabledTools(tools, disabled_linters) ==
    SelectSeq(tools, LAMBDA t : ~InList(t, disabled_linters))

can_run_pylint(p) == ~(p.implementation = "PyPy" /\ p.major = 3)

\* Mutant: the test for Windows is left out.
CanRunFrostedOnWindows(p) == ~(p.implementation = "PyPy" /\ p.major = 3)

can_run_frosted(p) ==
    ~(p.implementation = "PyPy" /\ p.major = 3) /\ p.system # "Windows"

\* linter_tools of _run_prospector for filename
LinterTools(p, filename) ==
    <<"pep257", "pep8", "pyflakes">>
    \o (IF can_run_pylint(p) THEN <<"pylint">> ELSE <<>>)
    \o (IF ~_file_is_test(filename) /\ can_run_frosted(p)
        THEN <<"frosted">> ELSE <<>>)

test_ignore_codes ==
    <<"invalid-name", "super-on-old-class", "too-many-public-methods">>

\* Mutant: a test file is treated as any other file.
IgnoreCodesNone(filename) == <<>>

\* kwargs["ignore_codes"] of _run_prospector for filename
IgnoreCodes(filename) ==
    IF _file_is_test(filename) THEN test_ignore_codes ELSE <<>>

\* kwargs of _run_prospector for filename
ProspectorKwargs(filename) ==
    IF _file_is_test(filename)
    THEN <<[name |-> "ignore_codes", value |-> PyList(IgnoreCodes(filename))]>>
    ELSE <<>>

(***************************************************************************)
(* State of one run of the lint command.                                   *)
(***************************************************************************)
VARIABLES
    pc,                \* where run() is
    disk,              \* the regular files: path -> lines
    platform,          \* the interpreter and system the command runs on
    suppress_codes,    \* self.suppress_codes
    exclusions,        \* self.exclusions
    disable_linters,   \* self.disable_linters
    cache_directory,   \* self.cache_directory
    stamp_directory,   \* self.stamp_directory
    show_lint_files,   \* self.show_lint_files
    opts,              \* the option attributes as they were set, with types
    files,             \* files of run()
    non_test_files,    \* non_test_files of run()
    md_files,          \* self._get_md_files()
    mapper,            \* mapper of run(): "lambda" or "parmap.map"
    workers,           \* the tasks of the pool of the parmap.map call at hand
    linter,            \* 0: the prospector checks; k: the k-th of dispatch
    idx,               \* position of a mapper or of the filter loop
    results,           \* the list a mapper call has built so far
    pending,           \* mappings the generator has still to yield
    yielded,           \* history: every mapping yielded, in order
    keyed_messages,    \* keyed_messages of run()
    file_lines_cache,  \* self._file_lines_cache
    messages,          \* messages of run()
    stdout,            \* the reports written to sys.stdout
    stderr,            \* the linter names written to sys.stderr
    exit_calls,        \* the arguments of the sys_exit calls
    calls,             \* history: the functions invoked, per check
    stamps,            \* the stamp directory: fingerprint -> stored result
    history,           \* history: the jobs handed to jobstamp.run, all runs
    runs,              \* the number of the run, counted from 1
    error              \* the exception raised in run(): <<>> or <<raised by>>

vars == <<pc, disk, platform, suppress_codes, exclusions, disable_linters,
          cache_directory, stamp_directory, show_lint_files, opts,
          files, non_test_files, md_files, mapper, workers, linter, idx,
          results, pending,
          yielded, keyed_messages, file_lines_cache, messages, stdout,
          stderr, exit_calls, calls, stamps, history, runs, error>>

options == <<disk, platform, suppress_codes, exclusions, disable_linters,
             cache_directory, stamp_directory, show_lint_files, opts>>
discovered == <<files, non_test_files, md_files, mapper, workers>>
output == <<stdout, stderr, exit_calls>>
memo == <<stamps, history, runs>>

\* dispatch of _map_over_linters, in its declared order
Dispatch ==
    <<"flake8", "pyroma", "mdl", "polysquare-generic-file-linter",
      "spellcheck-linter">>

EmptyCache == [f \in {} |-> <<>>]

\* An element of pending and yielded: the mapping a check returned.
Yielded(check, mapping) == [check |-> check, mapping |-> mapping]

\* A record of `calls`.
Call(fn, check, tools) == [fn |-> fn, check |-> check, tools |-> tools]

ListSet(list) == {list[i] : i \in 1..Len(list)}

\* os.path.isfile(filename) and readlines(), else ""
ReadLines(tree, filename) ==
    IF AbsPath(filename) \in DOMAIN tree THEN tree[AbsPath(filename)] ELSE <<>>

\* stamp_directory of run(): self.stamp_directory, or else a directory
\* below self.cache_directory.
StampDirectory ==
    IF stamp_directory # "" THEN stamp_directory
    ELSE cache_directory \o "/polysquare_setuptools_lint/jobstamps"

\* Mutant: no dependencies are named to jobstamp.run.
StampedDepsUnnamed(stamp_dir, func, dependencies, args, kwargs) ==
    [func |-> func,
     args |-> <<dependencies>> \o args,
     kwargs |-> kwargs,
     jobstamps_cache_output_directory |-> stamp_dir,
     jobstamps_dependencies |-> <<>>]

\* _stamped_deps(stamp_directory, func, dependencies, *args, **kwargs):
\* what it hands to jobstamp.run.
_stamped_deps(stamp_dir, func, dependencies, args, kwargs) ==
    [func |-> func,
     args |-> <<dependencies>> \o args,
     kwargs |-> kwargs,
     jobstamps_cache_output_directory |-> stamp_dir,
     jobstamps_dependencies |->
         IF ~isinstance(dependencies, "list") THEN <<dependencies.str>>
         ELSE dependencies.list]

\* jobstamp.run: the fingerprint of a job, over the function, the
\* arguments and the current contents of the dependencies.
Fingerprint(job, tree) ==
    [job |-> job,
     contents |-> [i \in 1..Len(job.jobstamps_dependencies) |->
                      ReadLines(tree, job.jobstamps_dependencies[i])]]

\* jobstamp.run: a stamp exists for the fingerprint of job, and the result
\* it stores.
JobstampHit(store, job, tree) == Fingerprint(job, tree) \in DOMAIN store
JobstampResult(store, job, tree) == store[Fingerprint(job, tree)]

\* jobstamp.run: the stamp directory once result is stored for job.
JobstampStore(store, job, tree, result) ==
    (Fingerprint(job, tree) :> result) @@ store

\* The job of the stamped check at hand is answered from a stamp.
Cached(job) == JobstampHit(stamps, job, disk)

\* An entry of history: the function, the dependency files with their
\* contents, the arguments, whether the function was invoked and how the
\* call ended.
Job(func, dependencies, args, kwargs, invoked, outcome, result) ==
    [run |-> runs, func |-> func, dependencies |-> dependencies,
     contents |-> [i \in 1..Len(dependencies) |-> ReadLines(disk, dependencies[i])],
     args |-> args, kwargs |-> kwargs, invoked |-> invoked,
     outcome |-> outcome, result |-> result]

\* The state in which run() is entered.
RunEntry ==
    /\ pc = "start"
    /\ files = <<>>
    /\ non_test_files = <<>>
    /\ md_files = <<>>
    /\ mapper = "lambda"
    /\ workers = <<>>
    /\ linter = 0
    /\ idx = 1
    /\ results = <<>>
    /\ pending = <<>>
    /\ yielded = <<>>
    /\ keyed_messages = <<>>
    /\ file_lines_cache = EmptyCache
    /\ messages = <<>>
    /\ stdout = <<>>
    /\ stderr = <<>>
    /\ exit_calls = <<>>
    /\ calls = {}
    /\ error = <<>>

\* An empty stamp directory, before the first run.
NoStamps ==
    /\ stamps = EmptyCache
    /\ history = <<>>
    /\ runs = 1

\* _get_cache_dir(candidate): the candidate, or else the build_temp
\* directory of the build command, created if missing.
_get_cache_dir(candidate) ==
    IF Len(candidate) > 0 THEN candidate ELSE Cwd \o "/build/temp"

\* The option attributes of a command whose list options were set to the
\* lists sc, ex and dl and whose other options were left alone.
Attributes(sc, ex, dl) ==
    [suppress_codes |-> PyList(sc), exclusions |-> PyList(ex),
     disable_linters |-> PyList(dl), cache_directory |-> PyStr(""),
     stamp_directory |-> PyStr(""), show_lint_files |-> PyInt(0)]

\* The options after finalize_options, for list options set to lists.
Finalized ==
    /\ opts = Attributes(suppress_codes, exclusions, disable_linters)
    /\ cache_directory = _get_cache_dir("")
    /\ stamp_directory = ""
    /\ show_lint_files = 0

Init ==
    /\ disk = ProjectDisk
    /\ platform \in Platforms
    /\ suppress_codes \in SuppressCodesChoices
    /\ exclusions \in ExclusionsChoices
    /\ disable_linters \in DisableLintersChoices
    /\ Finalized
    /\ RunEntry
    /\ NoStamps

(***************************************************************************)
(* run(): file discovery and the zero-file return.                         *)
(***************************************************************************)

\* _get_files_to_lint([os.path.join(cwd, "test")])
_get_files_to_lint(tree, excl) ==
    LET all_f ==
            _all_files_matching_ext(tree, Cwd \o "/test", "py")
            \cup UNION {_all_files_matching_ext(tree, AbsPath(ProjectPackages[i]), "py")
                        : i \in 1..Len(ProjectPackages)}
            \cup {AbsPath(ProjectModules[i] \o ".py")
                  : i \in 1..Len(ProjectModules)}
            \cup {Cwd \o "/setup.py"}
        all_exclusions == <<"*.egg/*", "*.eggs/*">> \o excl
    IN  SortedStrings({f \in all_f : ~_is_excluded(f, all_exclusions)})

\* _get_md_files()
_get_md_files(tree, excl) ==
    LET all_f == _all_files_matching_ext(tree, Cwd, "md")
        all_exclusions == <<"*.egg/*", "*.eggs/*", "*build/*">> \o excl
    IN  SortedStrings({f \in all_f : ~_is_excluded(f, all_exclusions)})

\* Mutant: no early return.
NoFilesNever(found) == FALSE

\* `if len(files) == 0`
NoFiles(found) == Len(found) = 0

\* use_multiprocessing of run()
use_multiprocessing(p, found) ==
    /\ ~p.DISABLE_MULTIPROCESSING
    /\ p.cpu_count < Len(found)
    /\ p.cpu_count > 2

\* run(), lines 630-667: discover the files; with none, sys_exit(0) and
\* return; else set up the generator of _map_over_linters.
RunStart ==
    /\ pc = "start"
    /\ LET found == _get_files_to_lint(DOMAIN disk, exclusions)
       IN  IF NoFiles(found)
           THEN /\ exit_calls' = Append(exit_calls, 0)
                /\ pc' = "done"
                /\ UNCHANGED <<discovered, calls>>
           ELSE /\ files' = found
                /\ non_test_files' = SelectSeq(found, LAMBDA f : ~_file_is_test(f))
                /\ md_files' = _get_md_files(DOMAIN disk, exclusions)
                /\ mapper' = IF use_multiprocessing(platform, found)
                             THEN "parmap.map" ELSE "lambda"
                /\ workers' = <<>>
                /\ calls' = calls \cup {Call("_get_md_files", "run", {})}
                /\ pc' = "prospector"
                /\ UNCHANGED exit_calls
    /\ UNCHANGED <<options, linter, idx, results, pending, yielded,
                   keyed_messages, file_lines_cache, messages, stdout, stderr,
                   memo, error>>

(***************************************************************************)
(* _map_over_linters: the prospector checks.                               *)
(***************************************************************************)

\* _run_prospector_on(filenames, tools, disabled_linters, ...,
\* ignore_codes) for the messages prospector returned.
_run_prospector_on(raw, ignore_codes) == BuildDict(<<>>, raw, ignore_codes)

\* The calls _stamped_deps(stamp_directory, _run_prospector_on, ...) makes
\* on behalf of check: jobstamp.run, the function, and prospector itself
\* unless every tool was filtered out.
ProspectorCalls(check, tools) ==
    {Call("jobstamp.run", check, {}), Call("_run_prospector_on", check, {})}
    \cup (IF Len(tools) = 0 THEN {}
          ELSE {Call("Prospector.execute", check, ListSet(tools))})

\* One element of mapper(_run_prospector, py_files, ...): _run_prospector
\* on files[idx].  An exception of the tool leaves run() as it is.
RunProspector ==
    /\ pc = "prospector"
    /\ mapper = "lambda"
    /\ idx <= Len(files)
    /\ LET filename == files[idx]
           linter_tools == LinterTools(platform, filename)
           tools == EnabledTools(linter_tools, disable_linters)
           args == <<PyList(linter_tools), PyList(disable_linters),
                     PyInt(show_lint_files)>>
           kwargs == ProspectorKwargs(filename)
           job == _stamped_deps(StampDirectory, "_run_prospector_on",
                                PyList(<<filename>>), args, kwargs)
           stored == JobstampResult(stamps, job, disk)
       IN  \/ /\ Cached(job)
              /\ calls' = calls \cup {Call("jobstamp.run", "prospector", {})}
              /\ results' = Append(results, Yielded("prospector", stored))
              /\ history' = Append(history,
                                   Job("_run_prospector_on", <<filename>>, args,
                                       kwargs, FALSE, "returned", stored))
              /\ idx' = idx + 1
              /\ UNCHANGED <<pc, error, stamps>>
           \/ /\ ~Cached(job)
              /\ calls' = calls \cup ProspectorCalls("prospector", tools)
              /\ \/ /\ \E raw \in (IF Len(tools) = 0 THEN {<<>>}
                                   ELSE ProspectorOutputs(<<filename>>, tools)) :
                        LET result == _run_prospector_on(raw, IgnoreCodes(filename))
                        IN  /\ results' = Append(results, Yielded("prospector", result))
                            /\ stamps' = JobstampStore(stamps, job, disk, result)
                            /\ history' =
                                 Append(history,
                                        Job("_run_prospector_on", <<filename>>,
                                            args, kwargs, TRUE, "returned", result))
                    /\ idx' = idx + 1
                    /\ UNCHANGED <<pc, error>>
                 \/ /\ Len(tools) > 0
                    /\ pc' = "raised"
                    /\ error' = <<"prospector">>
                    /\ history' = Append(history,
                                         Job("_run_prospector_on", <<filename>>,
                                             args, kwargs, TRUE, "raised", <<>>))
                    /\ UNCHANGED <<idx, results, stamps>>
    /\ UNCHANGED <<options, discovered, linter, pending, yielded,
                   keyed_messages, file_lines_cache, messages, output, runs>>

\* _stamped_deps(stamp_directory, _run_prospector_on, non_test_files,
\* ["dodgy"], ...), which completes the list `prospector`; the generator
\* then yields its elements.
RunDodgy ==
    /\ pc = "prospector"
    /\ idx > Len(files)
    /\ LET tools == EnabledTools(<<"dodgy">>, disable_linters)
           args == <<PyList(<<"dodgy">>), PyList(disable_linters),
                     PyInt(show_lint_files)>>
           job == _stamped_deps(StampDirectory, "_run_prospector_on",
                                PyList(non_test_files), args, <<>>)
           stored == JobstampResult(stamps, job, disk)
           next == /\ results' = <<>>
                   /\ idx' = 1
                   /\ linter' = 1
                   /\ pc' = "yield"
                   /\ UNCHANGED error
       IN  \/ /\ Cached(job)
              /\ calls' = calls \cup {Call("jobstamp.run", "dodgy", {})}
              /\ pending' = Append(results, Yielded("dodgy", stored))
              /\ history' = Append(history,
                                   Job("_run_prospector_on", non_test_files, args,
                                       <<>>, FALSE, "returned", stored))
              /\ next
              /\ UNCHANGED stamps
           \/ /\ ~Cached(job)
              /\ calls' = calls \cup ProspectorCalls("dodgy", tools)
              /\ \/ /\ \E raw \in (IF Len(tools) = 0 THEN {<<>>}
                                   ELSE ProspectorOutputs(non_test_files, tools)) :
                        LET result == _run_prospector_on(raw, <<>>)
                        IN  /\ pending' = Append(results, Yielded("dodgy", result))
                            /\ stamps' = JobstampStore(stamps, job, disk, result)
                            /\ history' =
                                 Append(history,
                                        Job("_run_prospector_on", non_test_files,
                                            args, <<>>, TRUE, "returned", result))
                    /\ next
                 \/ /\ Len(tools) > 0
                    /\ pc' = "raised"
                    /\ error' = <<"dodgy">>
                    /\ history' = Append(history,
                                         Job("_run_prospector_on", non_test_files,
                                             args, <<>>, TRUE, "raised", <<>>))
                    /\ UNCHANGED <<idx, results, pending, linter, stamps>>
    /\ UNCHANGED <<options, discovered, yielded, keyed_messages,
                   file_lines_cache, messages, output, runs>>

(***************************************************************************)
(* run(): keyed_messages.update(keyed_subset) for each mapping yielded.    *)
(***************************************************************************)

\* Mutant: the findings of globally suppressed codes are left out when a
\* mapping is merged.
MergeUnsuppressed ==
    /\ pc = "yield"
    /\ Len(pending) > 0
    /\ keyed_messages' =
          DictUpdate(keyed_messages,
                     SelectSeq(Head(pending).mapping,
                               LAMBDA item : ~InList(item.key.code, suppress_codes)))
    /\ yielded' = Append(yielded, Head(pending))
    /\ pending' = Tail(pending)
    /\ UNCHANGED <<pc, options, discovered, linter, idx, results,
                   file_lines_cache, messages, output, calls, memo, error>>

\* keyed_messages.update(keyed_subset) for the mapping the generator yields.
Merge ==
    /\ pc = "yield"
    /\ Len(pending) > 0
    /\ keyed_messages' = DictUpdate(keyed_messages, Head(pending).mapping)
    /\ yielded' = Append(yielded, Head(pending))
    /\ pending' = Tail(pending)
    /\ UNCHANGED <<pc, options, discovered, linter, idx, results,
                   file_lines_cache, messages, output, calls, memo, error>>

(***************************************************************************)
(* _map_over_linters: the dispatch list.                                   *)
(***************************************************************************)

\* The generator is about to take entry k of dispatch.
AtDispatch(k) == pc = "yield" /\ Len(pending) = 0 /\ linter = k

\* Mutant: every entry of dispatch runs.
LinterEnabledAlways(name, disabled_linters) == TRUE

\* `if linter not in self.disable_linters`
LinterEnabled(name, disabled_linters) == ~InList(name, disabled_linters)

\* Mutant: the error is written to stderr and not raised again.
FailLogged ==
    /\ stderr' = Append(stderr, Dispatch[linter])
    /\ error' = <<Dispatch[linter]>>
    /\ pending' = <<>>
    /\ results' = <<>>
    /\ idx' = 1
    /\ linter' = linter + 1
    /\ UNCHANGED pc

\* except Exception: the linter's name and the error go to stderr and the
\* error is raised again.
Fail ==
    /\ stderr' = Append(stderr, Dispatch[linter])
    /\ error' = <<Dispatch[linter]>>
    /\ pc' = "raised"
    /\ UNCHANGED <<linter, idx, results, pending>>

\* action() returned `list`: its elements are yielded next.
Return(list) ==
    /\ pending' = list
    /\ results' = <<>>
    /\ idx' = 1
    /\ linter' = linter + 1
    /\ UNCHANGED <<pc, stderr, error>>

\* A disabled entry of dispatch is passed over.
SkipDisabled ==
    /\ \E k \in 1..Len(Dispatch) :
          /\ AtDispatch(k)
          /\ ~LinterEnabled(Dispatch[k], disable_linters)
    /\ linter' = linter + 1
    /\ UNCHANGED <<pc, options, discovered, idx, results, pending, yielded,
                   keyed_messages, file_lines_cache, messages, output, calls,
                   memo, error>>

\* _run_flake8_internal(filename): the reporter stores each error under
\* _Key(current_file, line, code).
_run_flake8_internal(raw) == BuildDict(<<>>, raw, <<>>)

\* One element of mapper(_run_flake8, py_files, ...).
RunFlake8 ==
    /\ AtDispatch(1)
    /\ mapper = "lambda"
    /\ LinterEnabled(Dispatch[1], disable_linters)
    /\ idx <= Len(files)
    /\ LET filename == files[idx]
           job == _stamped_deps(StampDirectory, "_run_flake8_internal",
                                PyStr(filename), <<>>, <<>>)
           stored == JobstampResult(stamps, job, disk)
           next(list) == IF idx = Len(files)
                         THEN Return(list)
                         ELSE /\ results' = list
                              /\ idx' = idx + 1
                              /\ UNCHANGED <<pc, linter, pending, stderr, error>>
       IN  \/ /\ Cached(job)
              /\ calls' = calls \cup {Call("jobstamp.run", "flake8", {})}
              /\ next(Append(results, Yielded("flake8", stored)))
              /\ history' = Append(history,
                                   Job("_run_flake8_internal", <<filename>>, <<>>,
                                       <<>>, FALSE, "returned", stored))
              /\ UNCHANGED stamps
           \/ /\ ~Cached(job)
              /\ calls' = calls \cup {Call("jobstamp.run", "flake8", {}),
                                      Call("_run_flake8_internal", "flake8", {})}
              /\ \/ \E raw \in Flake8Outputs(filename) :
                       LET result == _run_flake8_internal(raw)
                       IN  /\ next(Append(results, Yielded("flake8", result)))
                           /\ stamps' = JobstampStore(stamps, job, disk, result)
                           /\ history' =
                                Append(history,
                                       Job("_run_flake8_internal", <<filename>>,
                                           <<>>, <<>>, TRUE, "returned", result))
                 \/ /\ Fail
                    /\ history' = Append(history,
                                         Job("_run_flake8_internal", <<filename>>,
                                             <<>>, <<>>, TRUE, "raised", <<>>))
                    /\ UNCHANGED stamps
    /\ UNCHANGED <<options, discovered, yielded, keyed_messages,
                   file_lines_cache, messages, stdout, exit_calls, runs>>

\* _run_pyroma(setup_file, ...): a message at line 0 of setup_file for
\* each failed test.
RECURSIVE _run_pyroma(_, _)
_run_pyroma(setup_file, failed) ==
    IF Len(failed) = 0 THEN <<>>
    ELSE DictUpdate(
           <<[key |-> _Key(setup_file, 0, failed[1]),
              message |-> Message("pyroma", failed[1], setup_file, 0, "pyroma")]>>,
           _run_pyroma(setup_file, Tail(failed)))

\* [_stamped_deps(stamp_directory, _run_pyroma, "setup.py", ...)]
RunPyroma ==
    /\ AtDispatch(2)
    /\ LinterEnabled(Dispatch[2], disable_linters)
    /\ LET args == <<PyInt(show_lint_files)>>
           job == _stamped_deps(StampDirectory, "_run_pyroma", PyStr("setup.py"),
                                args, <<>>)
           stored == JobstampResult(stamps, job, disk)
       IN  \/ /\ Cached(job)
              /\ calls' = calls \cup {Call("jobstamp.run", "pyroma", {})}
              /\ Return(<<Yielded("pyroma", stored)>>)
              /\ history' = Append(history,
                                   Job("_run_pyroma", <<"setup.py">>, args, <<>>,
                                       FALSE, "returned", stored))
              /\ UNCHANGED stamps
           \/ /\ ~Cached(job)
              /\ calls' = calls \cup {Call("jobstamp.run", "pyroma", {}),
                                      Call("_run_pyroma", "pyroma", {})}
              /\ \/ \E failed \in PyromaOutputs :
                       LET result == _run_pyroma("setup.py", failed)
                       IN  /\ Return(<<Yielded("pyroma", result)>>)
                           /\ stamps' = JobstampStore(stamps, job, disk, result)
                           /\ history' =
                                Append(history,
                                       Job("_run_pyroma", <<"setup.py">>, args,
                                           <<>>, TRUE, "returned", result))
                 \/ /\ Fail
                    /\ history' = Append(history,
                                         Job("_run_pyroma", <<"setup.py">>, args,
                                             <<>>, TRUE, "raised", <<>>))
                    /\ UNCHANGED stamps
    /\ UNCHANGED <<options, discovered, yielded, keyed_messages,
                   file_lines_cache, messages, stdout, exit_calls, runs>>

\* [_run_markdownlint(md_files, ...)]: with no mdl executable (ENOENT) the
\* adapter returns [], which updates keyed_messages with nothing.
RunMdl ==
    /\ AtDispatch(3)
    /\ LinterEnabled(Dispatch[3], disable_linters)
    /\ calls' = calls \cup {Call("_run_markdownlint", "mdl", {})}
    /\ \/ /\ platform.mdl
          /\ \E raw \in MdlOutputs(md_files) :
                Return(<<Yielded("mdl", BuildDict(<<>>, raw, <<>>))>>)
       \/ /\ ~platform.mdl
          /\ Return(<<Yielded("mdl", <<>>)>>)
       \/ /\ platform.mdl
          /\ Fail
    /\ UNCHANGED <<options, discovered, yielded, keyed_messages,
                   file_lines_cache, messages, stdout, exit_calls,
                   memo>>

\* [_run_polysquare_style_linter(py_files, ...)]
RunStyleLinter ==
    /\ AtDispatch(4)
    /\ LinterEnabled(Dispatch[4], disable_linters)
    /\ calls' = calls \cup {Call("_run_polysquare_style_linter",
                                 "polysquare-generic-file-linter", {})}
    /\ \/ \E raw \in StyleOutputs(files) :
             Return(<<Yielded("polysquare-generic-file-linter",
                              BuildDict(<<>>, raw, <<>>))>>)
       \/ Fail
    /\ UNCHANGED <<options, discovered, yielded, keyed_messages,
                   file_lines_cache, messages, stdout, exit_calls,
                   memo>>

\* [_run_spellcheck_linter(md_files, ...)]
RunSpellcheck ==
    /\ AtDispatch(5)
    /\ LinterEnabled(Dispatch[5], disable_linters)
    /\ calls' = calls \cup {Call("_run_spellcheck_linter",
                                 "spellcheck-linter", {})}
    /\ \/ \E raw \in SpellOutputs(md_files) :
             Return(<<Yielded("spellcheck-linter", BuildDict(<<>>, raw, <<>>))>>)
       \/ Fail
    /\ UNCHANGED <<options, discovered, yielded, keyed_messages,
                   file_lines_cache, messages, stdout, exit_calls,
                   memo>>

(***************************************************************************)
(* run(): the suppression filter, the report and the exit request.         *)
(***************************************************************************)

\* The generator is exhausted: the for loop of run() ends.
EndDispatch ==
    /\ AtDispatch(Len(Dispatch) + 1)
    /\ pc' = "filter"
    /\ idx' = 1
    /\ UNCHANGED <<options, discovered, linter, results, pending, yielded,
                   keyed_messages, file_lines_cache, messages, output, calls,
                   memo, error>>

\* Mutant: the file is read again at every lookup.
FileLinesReread(cache, tree, filename) ==
    [f \in DOMAIN cache \cup {filename} |->
        IF f = filename THEN ReadLines(tree, filename) ELSE cache[f]]

\* self._file_lines(filename): the cache after the call.
_file_lines(cache, tree, filename) ==
    IF filename \in DOMAIN cache THEN cache
    ELSE cache @@ (filename :> ReadLines(tree, filename))

\* One iteration of `for _, message in keyed_messages.items()`: the items
\* come in insertion order.  A message that is not suppressed is made
\* relative (the object keyed_messages holds) and appended to messages.
FilterStep ==
    /\ pc = "filter"
    /\ idx <= Len(keyed_messages)
    /\ LET message == keyed_messages[idx].message
           globally == GloballySuppressed(message.code, suppress_codes)
           cache == IF globally THEN file_lines_cache
                    ELSE _file_lines(file_lines_cache, disk, message.path)
           suppressed ==
               IF globally THEN PyTrue
               ELSE _suppressed(suppress_codes, cache[message.path],
                                message.line, message.code)
           relative == [message EXCEPT !.path = RelPath(message.path)]
       IN  /\ file_lines_cache' = cache
           /\ IF suppressed = IndexError
              THEN /\ pc' = "raised"
                   /\ error' = <<"_suppressed">>
                   /\ UNCHANGED <<idx, keyed_messages, messages>>
              ELSE /\ pc' = "filter"
                   /\ idx' = idx + 1
                   /\ UNCHANGED error
                   /\ IF Falsy(suppressed)
                      THEN /\ keyed_messages' =
                                [keyed_messages EXCEPT ![idx].message = relative]
                           /\ messages' = Append(messages, relative)
                      ELSE UNCHANGED <<keyed_messages, messages>>
    /\ calls' = calls \cup {Call("_suppressed", "run", {})}
    /\ UNCHANGED <<options, discovered, linter, results, pending, yielded,
                   output, memo>>

\* sys.stdout.write(PylintFormatter(dict(), messages, None).render(...))
Render ==
    /\ pc = "filter"
    /\ idx > Len(keyed_messages)
    /\ stdout' = Append(stdout, messages)
    /\ pc' = "exit"
    /\ UNCHANGED <<options, discovered, linter, idx, results, pending,
                   yielded, keyed_messages, file_lines_cache, messages,
                   stderr, exit_calls, calls, memo, error>>

\* Mutant: one message is not enough to fail.
AnyMessageButOne(list) == Len(list) > 1

\* `if len(messages)`
AnyMessage(list) == Len(list) > 0

\* if len(messages): sys_exit(1)
ExitStatus ==
    /\ pc = "exit"
    /\ exit_calls' = IF AnyMessage(messages) THEN Append(exit_calls, 1)
                     ELSE exit_calls
    /\ pc' = "done"
    /\ UNCHANGED <<options, discovered, linter, idx, results, pending,
                   yielded, keyed_messages, file_lines_cache, messages,
                   stdout, stderr, calls, memo, error>>

(***************************************************************************)
(* run() with mapper = parmap.map: the elements of py_files are tasks of   *)
(* a pool of worker processes; the call returns the list of their results, *)
(* in the order of py_files, or raises what a task raised.                 *)
(***************************************************************************)

\* A task of the pool: the check it belongs to, where it is, what it
\* returned.
Task(check, state, result) == [check |-> check, state |-> state, result |-> result]

\* The check whose mapper call run() is in, "" when it is in none.
Mapping ==
    IF pc = "prospector" /\ idx <= Len(files) THEN "prospector"
    ELSE IF AtDispatch(1) /\ LinterEnabled(Dispatch[1], disable_linters)
    THEN "flake8"
    ELSE ""

\* The tasks in a worker process.
Executing == {i \in DOMAIN workers : workers[i].state = "running"}

\* Mutant: the call returns as soon as one task is done.
JoinedAny(tasks) == \E i \in DOMAIN tasks : tasks[i].state = "done"

\* The call returns when every task is done.
Joined(tasks) == \A i \in DOMAIN tasks : tasks[i].state = "done"

\* _stamped_deps(...) of _run_prospector and of _run_flake8 for filename.
WorkerJob(check, filename) ==
    IF check = "prospector"
    THEN _stamped_deps(StampDirectory, "_run_prospector_on", PyList(<<filename>>),
                       <<PyList(LinterTools(platform, filename)),
                         PyList(disable_linters), PyInt(show_lint_files)>>,
                       ProspectorKwargs(filename))
    ELSE _stamped_deps(StampDirectory, "_run_flake8_internal", PyStr(filename),
                       <<>>, <<>>)

\* The tools _run_prospector_on hands to prospector for filename.
WorkerTools(filename) ==
    EnabledTools(LinterTools(platform, filename), disable_linters)

\* The mappings the function of the job can return for filename.
WorkerResults(check, filename) ==
    IF check = "prospector"
    THEN {_run_prospector_on(raw, IgnoreCodes(filename)) :
             raw \in (IF Len(WorkerTools(filename)) = 0 THEN {<<>>}
                      ELSE ProspectorOutputs(<<filename>>, WorkerTools(filename)))}
    ELSE {_run_flake8_internal(raw) : raw \in Flake8Outputs(filename)}

\* The functions a task calls.
WorkerCalls(check, filename) ==
    IF check = "prospector"
    THEN ProspectorCalls("prospector", WorkerTools(filename))
    ELSE {Call("jobstamp.run", "flake8", {}),
          Call("_run_flake8_internal", "flake8", {})}

\* The entry of history for a task.
WorkerEntry(check, filename, invoked, outcome, result) ==
    LET job == WorkerJob(check, filename)
    IN  Job(job.func, <<filename>>, Tail(job.args), job.kwargs, invoked,
            outcome, result)

\* mapper(_run_prospector, py_files, ...) or mapper(_run_flake8, py_files,
\* ...) is called: one task per file is handed to the pool.
ParmapStart ==
    /\ mapper = "parmap.map"
    /\ Mapping # ""
    /\ \A i \in DOMAIN workers : workers[i].check # Mapping
    /\ workers' = [i \in 1..Len(files) |-> Task(Mapping, "queued", <<>>)]
    /\ UNCHANGED <<pc, options, files, non_test_files, md_files, mapper,
                   linter, idx, results, pending, yielded, keyed_messages,
                   file_lines_cache, messages, output, calls, memo, error>>

\* A worker process of the pool takes a task.
WorkerRun(i) ==
    /\ pc # "raised"
    /\ workers[i].state = "queued"
    /\ Cardinality(Executing) < platform.cpu_count
    /\ workers' = [workers EXCEPT ![i].state = "running"]
    /\ UNCHANGED <<pc, options, files, non_test_files, md_files, mapper,
                   linter, idx, results, pending, yielded, keyed_messages,
                   file_lines_cache, messages, output, calls, memo, error>>

\* The worker process ends its task: _run_prospector or _run_flake8 on
\* files[i] returns a mapping, from a stamp or from the tool, or raises.
WorkerReturn(i) ==
    /\ pc # "raised"
    /\ workers[i].state = "running"
    /\ LET check == workers[i].check
           filename == files[i]
           job == WorkerJob(check, filename)
           stored == JobstampResult(stamps, job, disk)
       IN  \/ /\ Cached(job)
              /\ calls' = calls \cup {Call("jobstamp.run", check, {})}
              /\ workers' = [workers EXCEPT ![i] = Task(check, "done", stored)]
              /\ history' = Append(history,
                                   WorkerEntry(check, filename, FALSE,
                                               "returned", stored))
              /\ UNCHANGED stamps
           \/ /\ ~Cached(job)
              /\ calls' = calls \cup WorkerCalls(check, filename)
              /\ \/ \E result \in WorkerResults(check, filename) :
                       /\ workers' = [workers EXCEPT
                                        ![i] = Task(check, "done", result)]
                       /\ stamps' = JobstampStore(stamps, job, disk, result)
                       /\ history' = Append(history,
                                            WorkerEntry(check, filename, TRUE,
                                                        "returned", result))
                 \/ /\ check = "prospector" => Len(WorkerTools(filename)) > 0
                    /\ workers' = [workers EXCEPT ![i].state = "failed"]
                    /\ history' = Append(history,
                                         WorkerEntry(check, filename, TRUE,
                                                     "raised", <<>>))
                    /\ UNCHANGED stamps
    /\ UNCHANGED <<pc, options, files, non_test_files, md_files, mapper,
                   linter, idx, results, pending, yielded, keyed_messages,
                   file_lines_cache, messages, output, runs, error>>

\* Mutant: the results come in the order in which the tasks ended.
ParmapJoinAsCompleted ==
    /\ mapper = "parmap.map"
    /\ Mapping # ""
    /\ workers # <<>>
    /\ workers[1].check = Mapping
    /\ Joined(workers)
    /\ LET ended == SubSeq(history, Len(history) - Len(workers) + 1, Len(history))
           list == [i \in DOMAIN workers |-> Yielded(Mapping, ended[i].result)]
       IN  IF Mapping = "prospector"
           THEN /\ results' = list
                /\ idx' = Len(files) + 1
                /\ UNCHANGED <<pc, linter, pending, stderr, error>>
           ELSE Return(list)
    /\ UNCHANGED <<options, discovered, yielded, keyed_messages,
                   file_lines_cache, messages, stdout, exit_calls, calls, memo>>

\* The mapper call returns the results of the tasks in the order of
\* py_files.  After the prospector call the dodgy check is next; the list
\* of the flake8 call is what action() returns.
ParmapJoin ==
    /\ mapper = "parmap.map"
    /\ Mapping # ""
    /\ workers # <<>>
    /\ workers[1].check = Mapping
    /\ Joined(workers)
    /\ LET list == [i \in DOMAIN workers |-> Yielded(Mapping, workers[i].result)]
       IN  IF Mapping = "prospector"
           THEN /\ results' = list
                /\ idx' = Len(files) + 1
                /\ UNCHANGED <<pc, linter, pending, stderr, error>>
           ELSE Return(list)
    /\ UNCHANGED <<options, discovered, yielded, keyed_messages,
                   file_lines_cache, messages, stdout, exit_calls, calls, memo>>

\* The mapper call raises what a task raised; the tasks that are not done
\* are left to the pool.
ParmapRaise ==
    /\ mapper = "parmap.map"
    /\ Mapping # ""
    /\ \E i \in DOMAIN workers :
          workers[i].check = Mapping /\ workers[i].state = "failed"
    /\ IF Mapping = "prospector"
       THEN /\ pc' = "raised"
            /\ error' = <<"prospector">>
            /\ UNCHANGED <<linter, idx, results, pending, stderr>>
       ELSE Fail
    /\ UNCHANGED <<options, discovered, yielded, keyed_messages,
                   file_lines_cache, messages, stdout, exit_calls, calls, memo>>

\* A step of run() with the sequential mapper.
Next ==
    \/ RunStart
    \/ RunProspector
    \/ RunDodgy
    \/ Merge
    \/ SkipDisabled
    \/ RunFlake8
    \/ RunPyroma
    \/ RunMdl
    \/ RunStyleLinter
    \/ RunSpellcheck
    \/ EndDispatch
    \/ FilterStep
    \/ Render
    \/ ExitStatus

Spec == Init /\ [][Next]_vars

(***************************************************************************)
(* finalize_options, then run(): the command from the moment its options   *)
(* have been set, by the command line, setup.cfg or the caller.            *)
(***************************************************************************)

\* The list-typed options, in the order finalize_options takes them.
ListOptions == <<"suppress_codes", "exclusions", "disable_linters">>

\* Mutant: a string becomes the list of itself.
FinalizeListWhole(value) ==
    IF isinstance(value, "str") THEN PyList(<<value.str>>) ELSE value

\* if isinstance(value, str): value = value.split(",")
FinalizeList(value) ==
    IF isinstance(value, "str") THEN PyList(Split(value.str, ",")) ELSE value

\* The attributes when the loop over the list options has taken the first
\* n of them.
RECURSIVE FinalizeLists(_, _)
FinalizeLists(attrs, n) ==
    IF n = 0 THEN attrs
    ELSE LET before == FinalizeLists(attrs, n - 1)
             option == ListOptions[n]
         IN  [before EXCEPT ![option] = FinalizeList(before[option])]

\* The first list option that is not a list once it has been taken, as its
\* position in ListOptions; 0 when all are lists.
FirstNotList(attrs) ==
    LET bad == {n \in 1..Len(ListOptions) :
                   ~isinstance(FinalizeList(attrs[ListOptions[n]]), "list")}
    IN  IF bad = {} THEN 0 ELSE CHOOSE n \in bad : \A m \in bad : n <= m

\* The values of the options as they are set before finalize_options.
SuppressCodesValues == {PyList(<<>>), PyStr("E501,F401"), PyOther("NoneType")}
ExclusionsValues == {PyList(<<>>), PyStr("*test*"), PyList(<<"*.py">>), PyInt(1)}
DisableLintersValues ==
    {PyList(<<>>), PyStr("mdl,spellcheck-linter"), PyStr("pylint"),
     PyOther("NoneType")}
CacheDirectoryValues == {PyStr(""), PyStr("/c"), PyOther("NoneType")}
StampDirectoryValues == {PyStr(""), PyStr("/s"), PyInt(1)}
ShowLintFilesValues == {PyInt(0), PyStr("yes")}

\* __init__ and initialize_options, then the options are set.
InitOptions ==
    /\ disk = ProjectDisk
    /\ platform = Machine("CPython", "Linux", 4, TRUE)
    /\ suppress_codes = <<>>
    /\ exclusions = <<>>
    /\ disable_linters = <<>>
    /\ cache_directory = ""
    /\ stamp_directory = ""
    /\ show_lint_files = 0
    /\ opts \in [suppress_codes : SuppressCodesValues,
                  exclusions : ExclusionsValues,
                  disable_linters : DisableLintersValues,
                  cache_directory : CacheDirectoryValues,
                  stamp_directory : StampDirectoryValues,
                  show_lint_files : ShowLintFilesValues]
    /\ files = <<>>
    /\ non_test_files = <<>>
    /\ md_files = <<>>
    /\ mapper = "lambda"
    /\ workers = <<>>
    /\ linter = 0
    /\ idx = 1
    /\ results = <<>>
    /\ pending = <<>>
    /\ yielded = <<>>
    /\ keyed_messages = <<>>
    /\ file_lines_cache = EmptyCache
    /\ messages = <<>>
    /\ stdout = <<>>
    /\ stderr = <<>>
    /\ exit_calls = <<>>
    /\ calls = {}
    /\ error = <<>>
    /\ NoStamps
    /\ pc = "finalize"

\* finalize_options(): DistutilsArgError for the first option of the wrong
\* type, the options before it already taken; else the list options are
\* lists and cache_directory is _get_cache_dir(self.cache_directory).
FinalizeOptions ==
    /\ pc = "finalize"
    /\ LET bad == FirstNotList(opts)
           taken == FinalizeLists(opts, IF bad = 0 THEN Len(ListOptions) ELSE bad)
       IN  IF \/ bad # 0
              \/ ~isinstance(taken.cache_directory, "str")
              \/ ~isinstance(taken.stamp_directory, "str")
              \/ ~isinstance(taken.show_lint_files, "int")
           THEN /\ opts' = taken
                /\ error' = <<"DistutilsArgError">>
                /\ pc' = "raised"
                /\ UNCHANGED <<suppress_codes, exclusions, disable_linters,
                               cache_directory, stamp_directory,
                               show_lint_files>>
           ELSE /\ opts' = [taken EXCEPT !.cache_directory =
                                PyStr(_get_cache_dir(taken.cache_directory.str))]
                /\ suppress_codes' = taken.suppress_codes.list
                /\ exclusions' = taken.exclusions.list
                /\ disable_linters' = taken.disable_linters.list
                /\ cache_directory' = _get_cache_dir(taken.cache_directory.str)
                /\ stamp_directory' = taken.stamp_directory.str
                /\ show_lint_files' = taken.show_lint_files.int
                /\ pc' = "start"
                /\ UNCHANGED error
    /\ UNCHANGED <<disk, platform, discovered, linter, idx, results, pending,
                   yielded, keyed_messages, file_lines_cache, messages,
                   output, calls, memo>>

NextOptions ==
    \/ FinalizeOptions
    \/ Next

OptionsSpec == InitOptions /\ [][NextOptions]_vars
(***************************************************************************)
(* Runs of the command one after the other on one stamp directory: between *)
(* two runs a source file may be edited or an option changed.              *)
(***************************************************************************)

\* Largest number of runs.
MaxRuns == 2

\* The linters left out of these runs, and the same with pylint left out
\* as well.
WithoutPylint(disabled) ==
    IF InList("pylint", disabled)
    THEN SelectSeq(disabled, LAMBDA t : t # "pylint")
    ELSE Append(disabled, "pylint")

\* What happens between two runs: nothing, setup.py gets one more line, or
\* pylint is disabled or enabled again.
Changes == {"none", "edit", "option"}

InitCache ==
    /\ disk = ProjectDisk
    /\ platform = Machine("CPython", "Linux", 4, TRUE)
    /\ suppress_codes = <<>>
    /\ exclusions = <<"*test*">>
    /\ disable_linters =
          <<"mdl", "polysquare-generic-file-linter", "spellcheck-linter">>
    /\ Finalized
    /\ RunEntry
    /\ NoStamps

\* The command is run again, by a new process and a new command object,
\* on the stamp directory the runs before have left.
NextRun ==
    /\ pc \in {"done", "raised"}
    /\ runs < MaxRuns
    /\ \E change \in Changes :
          /\ disk' = IF change = "edit"
                     THEN [disk EXCEPT !["/w/setup.py"] = Append(@, "x = 1\n")]
                     ELSE disk
          /\ disable_linters' = IF change = "option"
                                THEN WithoutPylint(disable_linters)
                                ELSE disable_linters
    /\ opts' = Attributes(suppress_codes, exclusions, disable_linters')
    /\ runs' = runs + 1
    /\ pc' = "start"
    /\ files' = <<>>
    /\ non_test_files' = <<>>
    /\ md_files' = <<>>
    /\ mapper' = "lambda"
    /\ workers' = <<>>
    /\ linter' = 0
    /\ idx' = 1
    /\ results' = <<>>
    /\ pending' = <<>>
    /\ yielded' = <<>>
    /\ keyed_messages' = <<>>
    /\ file_lines_cache' = EmptyCache
    /\ messages' = <<>>
    /\ stdout' = <<>>
    /\ stderr' = <<>>
    /\ exit_calls' = <<>>
    /\ calls' = {}
    /\ error' = <<>>
    /\ UNCHANGED <<platform, suppress_codes, exclusions, cache_directory,
                   stamp_directory, show_lint_files, stamps, history>>

\* The checks that are not disabled in these runs, and the next run.
NextCache ==
    \/ RunStart
    \/ RunProspector
    \/ RunDodgy
    \/ Merge
    \/ SkipDisabled
    \/ RunFlake8
    \/ RunPyroma
    \/ EndDispatch
    \/ FilterStep
    \/ Render
    \/ ExitStatus
    \/ NextRun

CacheSpec == InitCache /\ [][NextCache]_vars

(***************************************************************************)
(* One run that uses the parallel mapper: more files than processors and   *)
(* more than two processors.                                               *)
(***************************************************************************)

\* A project of four Python files.
ParallelDisk ==
    ("/w/setup.py" :> <<"import setuptools\n", "setup()\n">>) @@
    ("/w/test/helper.py" :> <<"import os\n">>) @@
    ("/w/test/test_a.py" :> <<"import sys  # suppress(E501)\n">>) @@
    ("/w/test/test_b.py" :> <<"x = 1\n", "y = 2\n", "import os\n">>)

\* disable_linters of the run: everything but the tools of the per-file
\* prospector check, or everything but flake8.
ParallelDisabled ==
    {<<"dodgy", "flake8", "pyroma", "mdl", "polysquare-generic-file-linter",
       "spellcheck-linter">>,
     <<"pep257", "pep8", "pyflakes", "pylint", "frosted", "dodgy", "pyroma",
       "mdl", "polysquare-generic-file-linter", "spellcheck-linter">>}

InitParallel ==
    /\ disk = ParallelDisk
    /\ platform = Machine("CPython", "Linux", 3, TRUE)
    /\ suppress_codes \in {<<>>, <<"E501">>}
    /\ exclusions = <<>>
    /\ disable_linters \in ParallelDisabled
    /\ Finalized
    /\ RunEntry
    /\ NoStamps

NextParallel ==
    \/ RunStart
    \/ ParmapStart
    \/ \E i \in DOMAIN workers : WorkerRun(i)
    \/ \E i \in DOMAIN workers : WorkerReturn(i)
    \/ ParmapJoin
    \/ ParmapRaise
    \/ RunDodgy
    \/ Merge
    \/ SkipDisabled
    \/ EndDispatch
    \/ FilterStep
    \/ Render
    \/ ExitStatus

ParallelSpec == InitParallel /\ [][NextParallel]_vars

(***************************************************************************)
(* One run over the same project with either mapper: three processors     *)
(* select parmap.map, four (not fewer than the files) the in-process one.  *)
(***************************************************************************)

InitMapper ==
    /\ disk = ParallelDisk
    /\ platform \in {Machine("CPython", "Linux", 3, TRUE),
                     Machine("CPython", "Linux", 4, TRUE)}
    /\ suppress_codes \in {<<>>, <<"E501">>}
    /\ exclusions = <<>>
    /\ disable_linters \in ParallelDisabled
    /\ Finalized
    /\ RunEntry
    /\ NoStamps

NextMapper == NextParallel \/ RunProspector \/ RunFlake8

MapperSpec == InitMapper /\ [][NextMapper]_vars

(***************************************************************************)
(* The suppression filter on its own: run() from the moment the generator  *)
(* is exhausted, for one finding of any line and code on a file of any     *)
(* content.                                                                *)
(***************************************************************************)

\* Largest line number a tool reports.
MaxLine == 3
\* Largest number of lines of the file.
MaxFileLines == 2

Codes == {"F401", "E501", "F40"}

\* The source lines a file is made of.
LineTexts ==
    {"x = 1\n",
     "\n",
     "x = 1  # noqa\n",
     "x = 1  # suppress(F401)\n",
     "x = 1  # suppress(E501)\n",
     "# suppress(F401)\n",
     "  # suppress(E501,F401)\n",
     "x = 1  # suppress(F401\n",
     "x = 1  # suppress(F401]\n",
     "xsuppress(E501)\n"}

FileContents == UNION {[1..n -> LineTexts] : n \in 0..MaxFileLines}

LintedFile == "/w/m.py"

\* The project with LintedFile as its one file, or without it.
Disks == {EmptyCache} \cup {LintedFile :> lines : lines \in FileContents}

InitSuppress ==
    /\ disk \in Disks
    /\ platform = Machine("CPython", "Linux", 4, TRUE)
    /\ suppress_codes \in {<<>>, <<"F401">>}
    /\ exclusions = <<>>
    /\ disable_linters = <<>>
    /\ Finalized
    /\ files = <<LintedFile>>
    /\ non_test_files = <<LintedFile>>
    /\ md_files = <<>>
    /\ mapper = "lambda"
    /\ workers = <<>>
    /\ linter = Len(Dispatch) + 1
    /\ idx = 1
    /\ results = <<>>
    /\ pending = <<>>
    /\ \E line \in 0..MaxLine, code \in Codes :
          LET mapping ==
                  BuildDict(<<>>, <<Message(code, code, LintedFile, line, "flake8")>>, <<>>)
          IN  /\ keyed_messages = mapping
              /\ yielded = <<Yielded("flake8", mapping)>>
    /\ file_lines_cache = EmptyCache
    /\ messages = <<>>
    /\ stdout = <<>>
    /\ stderr = <<>>
    /\ exit_calls = <<>>
    /\ calls = {}
    /\ error = <<>>
    /\ NoStamps
    /\ pc = "filter"

NextSuppress == FilterStep \/ Render \/ ExitStatus

SuppressSpec == InitSuppress /\ [][NextSuppress]_vars

(***************************************************************************)
(* The filter over two findings on one file, which another process may     *)
(* write to between the two lookups of its lines.                          *)
(***************************************************************************)

\* The line another process appends to the file.
WrittenLine == "# suppress(E501,F401,F40)\n"

\* The second finding of the file.
SecondFinding == Message("E501", "E501", LintedFile, 1, "flake8")

InitLookup ==
    /\ disk \in Disks
    /\ platform = Machine("CPython", "Linux", 4, TRUE)
    /\ suppress_codes \in {<<>>, <<"F401">>}
    /\ exclusions = <<>>
    /\ disable_linters = <<>>
    /\ Finalized
    /\ files = <<LintedFile>>
    /\ non_test_files = <<LintedFile>>
    /\ md_files = <<>>
    /\ mapper = "lambda"
    /\ workers = <<>>
    /\ linter = Len(Dispatch) + 1
    /\ idx = 1
    /\ results = <<>>
    /\ pending = <<>>
    /\ \E line \in 0..MaxLine, code \in Codes :
          LET mapping ==
                  BuildDict(<<>>, <<Message(code, code, LintedFile, line, "flake8"),
                                    SecondFinding>>, <<>>)
          IN  /\ keyed_messages = mapping
              /\ yielded = <<Yielded("flake8", mapping)>>
    /\ file_lines_cache = EmptyCache
    /\ messages = <<>>
    /\ stdout = <<>>
    /\ stderr = <<>>
    /\ exit_calls = <<>>
    /\ calls = {}
    /\ error = <<>>
    /\ NoStamps
    /\ pc = "filter"

\* Another process creates the file or appends a line to it, once, after
\* the run has read it.
Touch ==
    /\ pc = "filter"
    /\ LintedFile \in DOMAIN file_lines_cache
    /\ ReadLines(disk, LintedFile) = file_lines_cache[LintedFile]
    /\ disk' = (LintedFile :> Append(ReadLines(disk, LintedFile), WrittenLine))
    /\ UNCHANGED <<pc, platform, suppress_codes, exclusions, disable_linters,
                   cache_directory, stamp_directory, show_lint_files, opts,
                   discovered, linter, idx, results, pending, yielded,
                   keyed_messages, file_lines_cache, messages, output, calls,
                   memo, error>>

NextLookup == FilterStep \/ Render \/ ExitStatus \/ Touch

LookupSpec == InitLookup /\ [][NextLookup]_vars

(***************************************************************************)
(* Vocabulary of the properties.                                           *)
(***************************************************************************)

\* Every finding a check has returned so far.
Findings ==
    UNION {{yielded[i].mapping[j].message : j \in 1..Len(yielded[i].mapping)}
           : i \in 1..Len(yielded)}

\* The filter loop has run to its end and the report is written.
Reported == pc \in {"exit", "done"} /\ Len(stdout) = 1

\* The finding m is in the report.
InReport(m) ==
    \E i \in 1..Len(stdout) : \E j \in 1..Len(stdout[i]) :
        stdout[i][j] = [m EXCEPT !.path = RelPath(m.path)]

\* The lines of the file a finding names.
LinesOf(m) == ReadLines(disk, m.path)

\* suppress(c1,...,cn) written out for a list of codes.
RECURSIVE JoinCodes(_)
JoinCodes(cs) ==
    IF Len(cs) = 1 THEN cs[1] ELSE cs[1] \o "," \o JoinCodes(Tail(cs))
Directive(cs) == "suppress(" \o JoinCodes(cs) \o ")"
MaxDirectiveCodes == 2
CodeLists == UNION {[1..n -> Codes] : n \in 1..MaxDirectiveCodes}

\* The code lists cs for which text is exactly suppress(cs).
FormsOf(text) == {cs \in CodeLists : text = Directive(cs)}

\* The text after the first "#" of a line, stripped; "" without a "#".
HasComment(text) == FindFrom(text, "#", 1) > 0
TrailingComment(text) ==
    IF HasComment(text)
    THEN Strip(SubSeq(text, FindFrom(text, "#", 1) + 1, Len(text)))
    ELSE ""

\* The line without its line end.
Content(text) ==
    IF Len(text) > 0 /\ SubSeq(text, Len(text), Len(text)) = "\n"
    THEN SubSeq(text, 1, Len(text) - 1) ELSE text

(***************************************************************************)
(* Properties.                                                             *)
(***************************************************************************)

\* The checks in the order _map_over_linters yields their mappings.
YieldOrder == <<"prospector", "dodgy">> \o Dispatch
Rank(check) == CHOOSE r \in 1..Len(YieldOrder) : YieldOrder[r] = check

\* Every mapping of the generator has been merged and the filter has not
\* touched keyed_messages yet.
Merging == pc = "yield" \/ (pc = "filter" /\ idx = 1)

\* The last mapping yielded that holds key.
LastWith(key) ==
    CHOOSE i \in 1..Len(yielded) :
        /\ key \in DictKeys(yielded[i].mapping)
        /\ \A j \in (i + 1)..Len(yielded) : key \notin DictKeys(yielded[j].mapping)

\* C1: the mappings are merged in dispatch order (prospector per file,
\* dodgy, flake8, pyroma, mdl, polysquare-generic-file-linter,
\* spellcheck-linter); the merged mapping holds exactly one entry for every
\* key of any mapping merged, and the entry is the finding of the last
\* mapping that holds the key.
C1_MergeLastWins ==
    Merging =>
        /\ \A i, j \in 1..Len(yielded) :
              i < j => Rank(yielded[i].check) <= Rank(yielded[j].check)
        /\ DictKeys(keyed_messages) =
              UNION {DictKeys(yielded[i].mapping) : i \in 1..Len(yielded)}
        /\ \A a, b \in 1..Len(keyed_messages) :
              keyed_messages[a].key = keyed_messages[b].key => a = b
        /\ \A a \in 1..Len(keyed_messages) :
              keyed_messages[a].message =
                  DictGet(yielded[LastWith(keyed_messages[a].key)].mapping,
                          keyed_messages[a].key)

\* Two checks returned different findings under one key and all is merged.
C1_Witness ==
    /\ pc = "filter" /\ idx = 1
    /\ \E i, j \in 1..Len(yielded) :
          /\ i < j
          /\ \E k \in DictKeys(yielded[i].mapping) \cap DictKeys(yielded[j].mapping) :
                DictGet(yielded[i].mapping, k) # DictGet(yielded[j].mapping, k)

\* C2: a finding whose code is in suppress_codes is in no report and not
\* among the surviving messages, whatever the file holds (also when the
\* file is absent or empty), whatever the line and the inline comments.
C2_GlobalSuppression ==
    \A m \in Findings :
        InList(m.code, suppress_codes) =>
            /\ ~InReport(m)
            /\ \A i \in 1..Len(messages) : messages[i].code # m.code

\* A report is written, and it leaves out a globally suppressed finding
\* on a file without lines.
C2_Witness ==
    /\ Reported
    /\ \E m \in Findings :
          /\ InList(m.code, suppress_codes)
          /\ Len(LinesOf(m)) = 0
          /\ ~InReport(m)

\* C3: when the text after the first "#" of the flagged line, stripped, is
\* suppress(c1,...,cn): a finding whose code is one of the ci is judged
\* suppressed and is not in the report; a finding whose code is none of
\* them is in the report unless its code is globally suppressed.
C3_InlineAside ==
    \A m \in Findings :
        LET lines == LinesOf(m)
        IN  (m.line \in 1..Len(lines) /\ HasComment(lines[m.line])) =>
              \A cs \in FormsOf(TrailingComment(lines[m.line])) :
                  /\ pc # "raised"
                  /\ IF InList(m.code, cs)
                     THEN /\ _suppressed(suppress_codes, lines, m.line, m.code) = PyTrue
                          /\ ~InReport(m)
                     ELSE (Reported /\ ~InList(m.code, suppress_codes))
                              => InReport(m)

\* A finding named by the directive beside it, and by nothing else, is
\* left out of the report.
C3_Witness ==
    /\ Reported
    /\ \E m \in Findings :
          LET lines == LinesOf(m)
          IN  /\ m.line \in 1..Len(lines)
              /\ \E cs \in FormsOf(TrailingComment(lines[m.line])) : InList(m.code, cs)
              /\ ~InList(m.code, suppress_codes)
              /\ ~InReport(m)

\* Line `above` is, as its whole content, the comment "# suppress(cs)"
\* for a list cs that names code.
AboveNames(above, code) ==
    \E cs \in CodeLists : Content(above) = "# " \o Directive(cs) /\ InList(code, cs)

\* C4 as claimed: a finding at line L >= 2 whose code is named by the
\* comment line "# suppress(...)" that is all of line L - 1 is not in the
\* report, whatever line L holds.
C4_AboveAnyContent ==
    Reported =>
        \A m \in Findings :
            LET lines == LinesOf(m)
            IN  (m.line \in 2..Len(lines) /\ AboveNames(lines[m.line - 1], m.code))
                => ~InReport(m)

\* C4, amended: a finding at line L >= 2 whose code is named by the
\* comment line "# suppress(...)" that is all of line L - 1 is not in the
\* report, provided line L holds no "#"; a line L with a "#" is judged by
\* its own comment alone.
C4_AboveWhenNoComment ==
    Reported =>
        \A m \in Findings :
            LET lines == LinesOf(m)
            IN  (/\ m.line \in 2..Len(lines)
                 /\ AboveNames(lines[m.line - 1], m.code)
                 /\ ~HasComment(lines[m.line]))
                => ~InReport(m)

\* A finding on a line without comment, named only by the line above, is
\* left out of the report.
C4_Witness ==
    /\ Reported
    /\ \E m \in Findings :
          LET lines == LinesOf(m)
          IN  /\ m.line \in 2..Len(lines)
              /\ AboveNames(lines[m.line - 1], m.code)
              /\ ~HasComment(lines[m.line])
              /\ ~InList(m.code, suppress_codes)
              /\ ~InReport(m)

\* text is suppress(c1,...,cn), closing parenthesis included, and code is
\* among the ci.
WellFormedFor(text, code) == \E cs \in FormsOf(text) : InList(code, cs)

\* The directive a comment line carries: the text after its leading "#".
CommentLine(text) ==
    IF StartsWith(Strip(text), "#") THEN Strip(SliceFrom1(Strip(text))) ELSE ""

\* C5: a finding whose code is not globally suppressed, with neither the
\* trailing comment of its line nor the line above a well-formed
\* suppress(...) that lists its code, is in the report.
C5_MalformedHasNoEffect ==
    Reported =>
        \A m \in Findings :
            LET lines == LinesOf(m)
            IN  (/\ ~InList(m.code, suppress_codes)
                 /\ m.line \in 1..Len(lines)
                 /\ ~WellFormedFor(TrailingComment(lines[m.line]), m.code)
                 /\ (m.line >= 2 =>
                        ~WellFormedFor(CommentLine(lines[m.line - 1]), m.code)))
                => InReport(m)

\* C6: a finding reported past the end of a file of N >= 1 lines is
\* judged as a finding with the same code at line N is, and the lookup
\* raises no IndexError.
C6_EndOfFileClamp ==
    \A m \in Findings :
        LET lines == LinesOf(m)
            N == Len(lines)
        IN  (N >= 1 /\ m.line > N) =>
              /\ pc # "raised"
              /\ Reported =>
                    (InReport(m) <=>
                        Falsy(_suppressed(suppress_codes, lines, N, m.code)))

\* A finding two lines past the end is suppressed by the last line.
C6_Witness ==
    /\ Reported
    /\ \E m \in Findings :
          LET lines == LinesOf(m)
          IN  /\ Len(lines) >= 1
              /\ m.line > Len(lines) + 1
              /\ ~InList(m.code, suppress_codes)
              /\ WellFormedFor(TrailingComment(lines[Len(lines)]), m.code)
              /\ ~InReport(m)

C9_ZeroFileShortCircuit ==
    /\ pc = "done" =>
          (Len(files) = 0 <=> Len(_get_files_to_lint(DOMAIN disk, exclusions)) = 0)
    /\ (pc # "start" /\ Len(files) = 0) =>
          /\ pc = "done"
          /\ exit_calls = <<0>>
          /\ calls = {}
          /\ yielded = <<>>
          /\ keyed_messages = <<>>
          /\ stdout = <<>>

\* A run whose every file is excluded has returned.
C9_Witness ==
    /\ pc = "done"
    /\ Len(exclusions) > 0
    /\ Len(_get_files_to_lint(DOMAIN disk, exclusions)) = 0
    /\ exit_calls = <<0>>

\* Some finding of the merged mapping is judged not suppressed.
Survivor ==
    \E j \in 1..Len(keyed_messages) :
        LET m == keyed_messages[j].message
        IN  Falsy(_suppressed(suppress_codes, ReadLines(disk, m.path), m.line, m.code))

\* C10: in a run that ends without an exception, exit status 1 is
\* requested exactly when a finding survives merging and suppression;
\* otherwise (zero files included) no status other than 0 is requested.
C10_ExitCode ==
    pc = "done" =>
        /\ (InList(1, exit_calls) <=> Survivor)
        /\ (~Survivor => \A i \in 1..Len(exit_calls) : exit_calls[i] = 0)
        /\ Len(exit_calls) <= 1

\* A run ends requesting exit status 1 for a report of one finding.
C10_Witness ==
    /\ pc = "done"
    /\ exit_calls = <<1>>
    /\ Len(stdout[1]) = 1

\* The checks of a run: the prospector checks and the dispatch list.
Checks == {YieldOrder[i] : i \in 1..Len(YieldOrder)}

\* C11: whenever a check of the run (prospector per file and dodgy
\* included) has raised an exception, stderr holds the name of that check.
C11_FailFastAttributed ==
    (error # <<>> /\ error[1] \in Checks) =>
        \E i \in 1..Len(stderr) : stderr[i] = error[1]

\* C12: once a check has raised, run() is left with the exception: nothing
\* is written to stdout, no exit status is requested, and no further check
\* is called, yielded or merged.
C12_NoPartialReport ==
    [][error' # <<>> =>
          /\ pc' = "raised"
          /\ stdout' = <<>>
          /\ exit_calls' = <<>>
          /\ error # <<>> =>
                /\ calls' = calls
                /\ yielded' = yielded
                /\ keyed_messages' = keyed_messages]_vars

\* A dispatch linter raised after findings of earlier checks were merged.
C12_Witness ==
    /\ pc = "raised"
    /\ error = <<"pyroma">>
    /\ Len(keyed_messages) > 0
    /\ stdout = <<>>
    /\ exit_calls = <<>>

\* The identity key of a message.
KeyOf(m) == _Key(m.path, m.line, m.code)

\* C13: the list of surviving findings handed to the renderer is sorted by
\* identity key (file path, then line number, then code).
C13_SortedFinalList ==
    \A r \in 1..Len(stdout) :
        \A i, j \in 1..Len(stdout[r]) :
            i < j => ~_Key__lt__(KeyOf(stdout[r][j]), KeyOf(stdout[r][i]))

\* C17: finalize_options ends with DistutilsArgError when a list option is
\* neither a string nor a list or when cache_directory or stamp_directory
\* is not a string; otherwise run() is entered with every list option given
\* as a string holding the comma-separated parts of that string and every
\* list option given as a list unchanged.  With the error, no check is
\* called, nothing is yielded and nothing is written to stdout.
C17_OptionValidation ==
    [][/\ pc = "finalize" =>
             LET failed == pc' = "raised" /\ error' = <<"DistutilsArgError">>
                 after == [suppress_codes |-> suppress_codes',
                           exclusions |-> exclusions',
                           disable_linters |-> disable_linters']
             IN  /\ failed \/ (pc' = "start" /\ error' = <<>>)
                 /\ (\/ \E n \in 1..Len(ListOptions) :
                           opts[ListOptions[n]].type \notin {"str", "list"}
                     \/ opts.cache_directory.type # "str"
                     \/ opts.stamp_directory.type # "str") => failed
                 /\ ~failed =>
                       \A n \in 1..Len(ListOptions) :
                           LET before == opts[ListOptions[n]]
                               list == after[ListOptions[n]]
                           IN  /\ before.type = "list" => list = before.list
                               /\ before.type = "str" =>
                                     /\ Len(list) >= 1
                                     /\ JoinCodes(list) = before.str
                                     /\ \A i \in 1..Len(list) :
                                           FindFrom(list[i], ",", 1) = 0
       /\ error' = <<"DistutilsArgError">> =>
             /\ calls' = {}
             /\ yielded' = <<>>
             /\ stdout' = <<>>
             /\ exit_calls' = <<>>]_vars

\* finalize_options split one option and then raised for the next.
C17_Witness ==
    /\ pc = "raised"
    /\ error = <<"DistutilsArgError">>
    /\ opts.suppress_codes = PyList(<<"E501", "F401">>)
    /\ opts.exclusions = PyInt(1)
    /\ calls = {}
    /\ stdout = <<>>

\* The tools that cannot run on the machine: pylint and frosted on PyPy 3,
\* frosted on Windows, mdl without its executable.
Unavailable ==
    (IF platform.implementation = "PyPy" /\ platform.major = 3
     THEN {"pylint", "frosted"} ELSE {})
    \cup (IF platform.system = "Windows" THEN {"frosted"} ELSE {})
    \cup (IF platform.mdl THEN {} ELSE {"mdl"})

\* The generator of _map_over_linters has been run to its end.
Aggregated == pc \in {"filter", "exit", "done"} /\ Len(files) > 0

\* C15: a tool that cannot run is never handed to prospector, reports no
\* finding, and does not fail the run; when the generator has ended, the
\* prospector checks and every dispatch linter that is not disabled have
\* yielded their mappings, mdl an empty one when its executable is missing.
C15_UnavailableSkipped ==
    /\ \A c \in calls : c.tools \cap Unavailable = {}
    /\ \A m \in Findings : m.by \notin Unavailable
    /\ \A i \in 1..Len(keyed_messages) :
          keyed_messages[i].message.by \notin Unavailable
    /\ \A t \in Unavailable :
          /\ error # <<t>>
          /\ \A i \in 1..Len(stderr) : stderr[i] # t
    /\ Aggregated =>
          \A c \in Checks :
              (c \in {"prospector", "dodgy"} \/ ~InList(c, disable_linters)) =>
                  \E i \in 1..Len(yielded) : yielded[i].check = c

\* On a machine without frosted and mdl the run ended: mdl yielded an
\* empty mapping, the checks before and after it yielded findings.
C15_Witness ==
    /\ pc = "done"
    /\ Unavailable = {"frosted", "mdl"}
    /\ \E i \in 1..Len(yielded) :
          yielded[i].check = "mdl" /\ yielded[i].mapping = <<>>
    /\ \E i \in 1..Len(yielded) :
          yielded[i].check = "spellcheck-linter" /\ Len(yielded[i].mapping) > 0
    /\ \E i \in 1..Len(keyed_messages) :
          keyed_messages[i].message.by = "pyflakes"

\* The findings of the merged mapping and of the reports written.
MergedOrReported ==
    {keyed_messages[i].message : i \in 1..Len(keyed_messages)}
    \cup UNION {{stdout[r][j] : j \in 1..Len(stdout[r])} : r \in 1..Len(stdout)}

\* The tools prospector runs for the per-file check and the whole-set check.
ProspectorTools == {"pep257", "pep8", "pyflakes", "pylint", "frosted"}

\* C18: on a file that _file_is_test classifies as a test, no finding of a
\* prospector tool with code invalid-name, super-on-old-class or
\* too-many-public-methods is yielded, merged or reported; the dodgy check
\* gets non_test_files, which holds no test file, and no finding of dodgy
\* on a test file is yielded, merged or reported.
C18_TestFileRelaxation ==
    /\ \A i \in 1..Len(non_test_files) :
          /\ ~_file_is_test(non_test_files[i])
          /\ InList(non_test_files[i], files)
    /\ \A m \in Findings \cup MergedOrReported :
          _file_is_test(m.path) =>
              /\ m.by \in ProspectorTools =>
                    m.code \notin {"invalid-name", "super-on-old-class",
                                   "too-many-public-methods"}
              /\ m.by # "dodgy"

\* pylint ran on the test file and dodgy on the other file, their findings
\* are merged and reported: the test file has findings, none of them
\* relaxed.
C18_Witness ==
    /\ pc = "done"
    /\ \E c \in calls : c.check = "prospector" /\ "pylint" \in c.tools
    /\ \E m \in MergedOrReported : m.by = "dodgy"
    /\ \E m \in MergedOrReported : m.code = "invalid-name"
    /\ \E i \in 1..Len(yielded) :
          /\ yielded[i].check = "prospector"
          /\ \E j \in 1..Len(yielded[i].mapping) :
                _file_is_test(yielded[i].mapping[j].message.path)

\* The entries of history before the i-th that ran the same function on
\* the same dependency files, with the contents these have at the i-th,
\* and the same arguments, and returned.
ExecutedBefore(i) ==
    {j \in 1..(i - 1) :
        /\ history[j].invoked
        /\ history[j].outcome = "returned"
        /\ history[j].func = history[i].func
        /\ history[j].dependencies = history[i].dependencies
        /\ history[j].contents = history[i].contents
        /\ history[j].args = history[i].args
        /\ history[j].kwargs = history[i].kwargs}

Looked == IF pc = "filter" THEN 1..(idx - 1)
          ELSE IF pc \in {"exit", "done"} THEN 1..Len(keyed_messages)
          ELSE {}

\* The cache after a step: the entries it had, unchanged, and for a file
\* looked up for the first time its lines as they are on disk.
PopulatedOnce ==
    LET old == file_lines_cache
        new == file_lines_cache'
    IN  /\ \A f \in DOMAIN old : f \in DOMAIN new /\ new[f] = old[f]
        /\ \A g \in DOMAIN new \ DOMAIN old : new[g] = ReadLines(disk, g)

\* The findings judged so far against a file without lines are kept, and
\* judging one has not raised.
KeptWithoutLines ==
    /\ \A i \in Looked :
          LET m == keyed_messages[i].message
          IN  (/\ ~InList(m.code, suppress_codes)
               /\ Len(file_lines_cache[LintedFile]) = 0)
                  => \E j \in 1..Len(messages) : messages[j] = m
    /\ error = <<"_suppressed">> => Len(file_lines_cache[LintedFile]) > 0

\* C16: a finding whose code is not globally suppressed and whose file was
\* absent or had zero lines when its lines were read is kept, and judging
\* it raises nothing; a lookup either adds the file's lines as they are on
\* disk at that moment or leaves the cache as it is, so that an entry,
\* once there, is the same for the rest of the run.
C16_EmptySourceKept == []KeptWithoutLines /\ [][PopulatedOnce]_vars

\* Two findings on a file that was absent or empty at the first lookup
\* are both reported, although the file had a line naming their codes by
\* the time of the second lookup.
C16_Witness ==
    /\ Reported
    /\ Len(stdout[1]) = 2
    /\ Len(file_lines_cache[LintedFile]) = 0
    /\ ReadLines(disk, LintedFile) = <<WrittenLine>>
    /\ suppress_codes = <<>>

\* The strings among the arguments of entry i of history.
JobStrings(i) ==
    LET strings(v) == IF isinstance(v, "list") THEN ListSet(v.list)
                      ELSE IF isinstance(v, "str") THEN {v.str} ELSE {}
        job == history[i]
    IN  UNION ({strings(job.args[a]) : a \in 1..Len(job.args)} \cup
               {strings(job.kwargs[k].value) : k \in 1..Len(job.kwargs)})

\* C19: every finding of a mapping the generator has handed to run() has
\* its key in keyed_messages, suppressed or not, and until the filter loop
\* starts keyed_messages holds findings exactly as they were returned;
\* _suppressed is not called, no file is read for it and no message is
\* judged while a check is still to run or a mapping still to be merged;
\* no code of suppress_codes is among the arguments of a stamped job.
C19_SuppressionAfterAggregation ==
    /\ \A m \in Findings : KeyOf(m) \in DictKeys(keyed_messages)
    /\ Merging =>
          \A i \in 1..Len(keyed_messages) :
              /\ keyed_messages[i].message \in Findings
              /\ keyed_messages[i].key = KeyOf(keyed_messages[i].message)
    /\ pc \in {"start", "prospector", "yield"} =>
          /\ Call("_suppressed", "run", {}) \notin calls
          /\ file_lines_cache = EmptyCache
          /\ messages = <<>>
    /\ Call("_suppressed", "run", {}) \in calls =>
          /\ pending = <<>>
          /\ linter = Len(Dispatch) + 1
          /\ pc \in {"filter", "raised", "exit", "done"}
    /\ \A i \in 1..Len(history) :
          JobStrings(i) \cap ListSet(suppress_codes) = {}

\* A report is written after stamped checks ran; a finding whose code is
\* globally suppressed and one that a directive of its file suppresses are
\* in keyed_messages and not in the report.
C19_Witness ==
    /\ Reported
    /\ Len(history) > 0
    /\ Call("_suppressed", "run", {}) \in calls
    /\ \E m \in Findings :
          /\ InList(m.code, suppress_codes)
          /\ KeyOf(m) \in DictKeys(keyed_messages)
          /\ ~InReport(m)
    /\ \E m \in Findings :
          /\ ~InList(m.code, suppress_codes)
          /\ KeyOf(m) \in DictKeys(keyed_messages)
          /\ ~InReport(m)

\* A task has been handed to the pool and has neither returned nor raised.
Outstanding ==
    \E i \in DOMAIN workers : workers[i].state \in {"queued", "running"}

\* A step that changes keyed_messages is taken when every task of the pool
\* is done, and is no step of a task; a step of a task leaves keyed_messages
\* and the file-lines cache as they are.
MergedAfterJoin ==
    /\ keyed_messages' # keyed_messages =>
          /\ \A i \in DOMAIN workers : workers[i].state = "done"
          /\ workers' = workers
    /\ workers' # workers =>
          /\ keyed_messages' = keyed_messages
          /\ file_lines_cache' = file_lines_cache
          /\ messages' = messages

\* C20: with the parallel mapper, keyed_messages is updated only while no
\* task of a per-file check is queued or executing, and never by a task;
\* while a task is outstanding no mapping waits to be merged and the
\* file-lines cache is untouched.
C20_NoConcurrentWriter ==
    /\ [](mapper = "parmap.map" /\ Outstanding /\ pc # "raised" =>
             /\ pending = <<>>
             /\ file_lines_cache = EmptyCache
             /\ messages = <<>>)
    /\ [][mapper = "parmap.map" => MergedAfterJoin]_vars

\* The tasks of a parallel mapper call ended in another order than that of
\* py_files, and the findings of two of them are merged.
C20_Witness ==
    /\ mapper = "parmap.map"
    /\ Len(history) >= 2
    /\ history[1].dependencies = <<files[2]>>
    /\ history[2].dependencies = <<files[1]>>
    /\ \E a, b \in 1..Len(keyed_messages) :
          /\ keyed_messages[a].key.file = files[1]
          /\ keyed_messages[b].key.file = files[2]

Min(a, b) == IF a <= b THEN a ELSE b

\* C22: for a finding at line L >= 0 of a file of N >= 1 lines, the line
\* read for a directive beside the finding is line min(max(L, 1), N); a
\* finding at line 0 is judged as the same finding at line 1 is; and for a
\* finding at line 1 the line read as the line above is not line 1.
C22_FlaggedLineLookup ==
    \A m \in Findings :
        LET lines == LinesOf(m)
            N == Len(lines)
        IN  N >= 1 =>
              /\ FlaggedPosition(lines, m.line) = Min(Max(m.line, 1), N)
              /\ (m.line = 1 /\ ~HasComment(lines[1])) =>
                    AbovePosition(lines, m.line) # 1
              /\ (Reported /\ m.line = 0) =>
                    (InReport(m) <=>
                        Falsy(_suppressed(suppress_codes, lines, 1, m.code)))

\* The mapping the stamped function func returned for the dependencies
\* deps in this run, whenever it returned; dodgy tells the dodgy check from
\* the per-file prospector check.
ReturnedFor(func, deps, dodgy) ==
    LET entries == {i \in 1..Len(history) :
                        /\ history[i].func = func
                        /\ history[i].dependencies = deps
                        /\ history[i].outcome = "returned"
                        /\ (Len(history[i].args) > 0 /\
                            history[i].args[1] = PyList(<<"dodgy">>)) <=> dodgy}
    IN  history[CHOOSE i \in entries : TRUE].result

\* The mappings of the run in the order of the checks and, within a
\* per-file check, of py_files: those of prospector, dodgy and flake8.
InDeclaredOrder ==
    [i \in 1..Len(files) |->
        ReturnedFor("_run_prospector_on", <<files[i]>>, FALSE)]
    \o <<ReturnedFor("_run_prospector_on", non_test_files, TRUE)>>
    \o (IF LinterEnabled("flake8", disable_linters)
        THEN [i \in 1..Len(files) |->
                 ReturnedFor("_run_flake8_internal", <<files[i]>>, FALSE)]
        ELSE <<>>)

RECURSIVE UpdateAll(_, _)
UpdateAll(d, mappings) ==
    IF Len(mappings) = 0 THEN d
    ELSE UpdateAll(DictUpdate(d, mappings[1]), Tail(mappings))

\* What the tool outputs of the run determine: the merged mapping and the
\* messages of the report.
DeterminedMapping == UpdateAll(<<>>, InDeclaredOrder)
DeterminedReport ==
    LET kept == SelectSeq(DeterminedMapping,
                          LAMBDA item :
                              Falsy(_suppressed(suppress_codes,
                                                ReadLines(disk, item.message.path),
                                                item.message.line,
                                                item.message.code)))
    IN  [i \in 1..Len(kept) |->
            [kept[i].message EXCEPT !.path = RelPath(kept[i].message.path)]]

\* The dispatch linters besides flake8 are disabled.
OnlyStamped ==
    \A k \in 2..Len(Dispatch) : ~LinterEnabled(Dispatch[k], disable_linters)

====
